---------------------------- MODULE Spec2Model ----------------------------
(***************************************************************************)
(* A state-machine model of frame_comp's FrameComparator (src/src/lib.rs)  *)
(* and of the Vulkan helpers it calls (src/src/vulkan/*.rs).               *)
(*                                                                         *)
(* The comparator is driven by a host that owns the device, the descriptor *)
(* pool, the command buffers and the image views.  The model keeps the     *)
(* comparator's fields, the device objects the comparator creates and      *)
(* destroys, the host's pool and views, and the commands recorded.         *)
(***************************************************************************)
EXTENDS Integers, Sequences, FiniteSets, TLC

(***************************************************************************)
(* Bounds of the model.                                                    *)
(***************************************************************************)
MaxCompare == 2      \* compare calls in one behaviour
MaxRecreate == 2     \* times the host replaces a view under its handle

\* The handles the host works with: output image views and command buffers
Views == {1, 2}
CommandBuffers == {1, 2}
NULL == 0            \* vk null handle / Option::None

(***************************************************************************)
(* The comparator's state (struct FrameComparator), the device's and the   *)
(* host's.                                                                 *)
(***************************************************************************)
VARIABLES
    phase,              \* "Ready" | "Destroyed" (dropped) | "Aborted" (a panic that
                        \* nothing caught: the caller never gets control back)
    self,               \* the immutable fields of FrameComparator
    framebuffer_cache,  \* HashMap<vk::ImageView, vk::Framebuffer>
    cache_borrow,       \* the RefCell's borrow state: "free" | "mut"
    framebuffers,       \* device: every framebuffer created; the handle is the index
    destroyed,          \* device: the vkDestroy* calls made, in order
    pool,               \* host's descriptor pool: its sizes, what is free, and what
                        \* the allocations made since Init have taken
    descriptor_sets,    \* device: every descriptor set allocated, with its writes
    cmds,               \* what was recorded into each command buffer
    views,              \* host's output image views: the incarnation behind each handle
    lastCompare,        \* history: the latest compare call and its outcome, until
                        \* clear_cache_for is called on its view
    comparedSinceClear, \* history: views given to compare since their last clear
    resolvedSinceClear, \* history: views whose framebuffer a compare resolved since
    omitted,            \* history: views the host replaced without clear_cache_for
    danglingUsed,       \* history: views whose stale framebuffer was used or destroyed
    okCompares,         \* history: compare calls that returned Ok
    nCompare,           \* compare calls made
    new_call            \* the call of FrameComparator::new: where it is, what it
                        \* returned, and the objects it created and has not destroyed

vars == <<phase, self, framebuffer_cache, cache_borrow, framebuffers, destroyed,
          pool, descriptor_sets, cmds, views, lastCompare, comparedSinceClear,
          resolvedSinceClear, omitted, danglingUsed, okCompares, nCompare,
          new_call>>

history == <<comparedSinceClear, resolvedSinceClear, omitted, danglingUsed,
             okCompares>>

(***************************************************************************)
(* Inputs.                                                                 *)
(***************************************************************************)
\* vk::Extent2D given to FrameComparator::new
Extents == {[width |-> 100, height |-> 50]}

\* Fixed-point unit standing for the f32 value 1.0
Unit == 1000

Black == <<0, 0, 0, Unit>>

\* The per-call variations of FrameCompareInfo besides out_image_view.
InfoVariants ==
    { [command_buffer |-> 1, image_views |-> <<11, 12>>,
       divider_position |-> Unit \div 2, divider_width |-> 4, divider_color |-> Black],
      [command_buffer |-> 2, image_views |-> <<12, 12>>,
       divider_position |-> Unit + Unit \div 2, divider_width |-> 0,
       divider_color |-> <<Unit, 0, 0, Unit>>] }

\* struct FrameCompareInfo
FrameCompareInfo ==
    { [command_buffer |-> i.command_buffer, out_image_view |-> v,
       image_views |-> i.image_views, divider_position |-> i.divider_position,
       divider_width |-> i.divider_width, divider_color |-> i.divider_color]
      : v \in Views, i \in InfoVariants }

\* The extents and requests of the single-call specification: positions inside,
\* on the edges of and outside [0, 1], widths from 0 to u8::MAX, square and
\* non-square targets.
WideExtents ==
    {[width |-> 100, height |-> 100], [width |-> 64, height |-> 48],
     [width |-> 320, height |-> 240]}

WideInfos ==
    [command_buffer : CommandBuffers, out_image_view : Views,
     image_views : {<<11, 12>>, <<12, 12>>},
     divider_position : {0 - Unit \div 2, 0, Unit \div 4, Unit \div 2, Unit,
                         2 * Unit},
     divider_width : {0, 1, 4, 255},
     divider_color : {Black, <<Unit, 0, 0, Unit \div 2>>}]

\* The host's pool when the comparator is built (maxSets and the pool size for
\* combined image samplers, and what is still free of them): a fresh pool that fits
\* one compare exactly, and a pool for two sets that is one descriptor short and of
\* which another consumer holds a set already.  The host resets its pool to go on.
PoolConfigs ==
    { [sets |-> 1, samplers |-> 2, free_sets |-> 1, free_samplers |-> 2],
      [sets |-> 2, samplers |-> 3, free_sets |-> 1, free_samplers |-> 1] }

(***************************************************************************)
(* Device helpers.                                                         *)
(***************************************************************************)
\* Number of vkDestroy* calls on handle h in a log of such calls
DestroyCountIn(log, h) == Cardinality({i \in 1 .. Len(log) : log[i] = h})

DestroyCount(h) == DestroyCountIn(destroyed, h)

FramebufferHandle(fb) == <<"framebuffer", fb>>

\* A framebuffer depends on the incarnation of the view it was created with
Dangling(fb) ==
    LET f == framebuffers[fb]
    IN  views[f.attachments[1]] # f.view_gen

RECURSIVE SumGen(_)
SumGen(S) ==
    IF S = {} THEN 0
    ELSE LET v == CHOOSE x \in S : TRUE IN views[v] + SumGen(S \ {v})

\* Views re-created so far
Recreated == SumGen(Views)

\* No compare call yet, or none since its view's cache entry was cleared
NoCompare == [view |-> NULL, result |-> "none", created |-> NULL,
              framebuffer |-> NULL, alloc_calls |-> 0]

(***************************************************************************)
(* vulkan/descriptors.rs                                                   *)
(***************************************************************************)
\* A faulty variant of the layout: binding 1 declared with two descriptors.
descriptor_set_layout_bindings_wide ==
    << [binding |-> 0, descriptor_type |-> "COMBINED_IMAGE_SAMPLER",
        descriptor_count |-> 1, stage_flags |-> "FRAGMENT"],
       [binding |-> 1, descriptor_type |-> "COMBINED_IMAGE_SAMPLER",
        descriptor_count |-> 2, stage_flags |-> "FRAGMENT"] >>

\* create_descriptor_set_layout: the two bindings of the layout
descriptor_set_layout_bindings ==
    << [binding |-> 0, descriptor_type |-> "COMBINED_IMAGE_SAMPLER",
        descriptor_count |-> 1, stage_flags |-> "FRAGMENT"],
       [binding |-> 1, descriptor_type |-> "COMBINED_IMAGE_SAMPLER",
        descriptor_count |-> 1, stage_flags |-> "FRAGMENT"] >>

RECURSIVE SumCounts(_)
SumCounts(bindings) ==
    IF bindings = <<>> THEN 0
    ELSE Head(bindings).descriptor_count + SumCounts(Tail(bindings))

\* device.allocate_descriptor_sets for one set of the layout: it succeeds exactly
\* when the pool has a free set and enough free descriptors, and takes them.
allocate_descriptor_sets(p, bindings) ==
    LET need == SumCounts(bindings)
    IN  IF p.free_sets >= 1 /\ p.free_samplers >= need
        THEN [ok |-> TRUE,
              pool |-> [p EXCEPT !.free_sets = @ - 1, !.free_samplers = @ - need,
                                 !.taken_sets = @ + 1, !.taken_samplers = @ + need]]
        ELSE [ok |-> FALSE, pool |-> p]

\* A faulty variant of create_descriptor_set: the allocation error is swallowed and
\* a null set handed back as if the call had succeeded.
create_descriptor_set_swallow(p, bindings) ==
    LET r == allocate_descriptor_sets(p, bindings)
    IN  [ok |-> TRUE, allocated |-> r.ok, pool |-> r.pool, calls |-> 1]

\* create_descriptor_set: one allocation call, its error passed on by `?`
create_descriptor_set(p, bindings) ==
    LET r == allocate_descriptor_sets(p, bindings)
    IN  [ok |-> r.ok, allocated |-> r.ok, pool |-> r.pool, calls |-> 1]

\* A faulty variant of the writes: the first image view goes to both bindings.
update_descriptor_sets_first_twice(sampler, image_views) ==
    { [dst_binding |-> b, dst_array_element |-> 0,
       descriptor_type |-> "COMBINED_IMAGE_SAMPLER",
       image_view |-> image_views[1], sampler |-> sampler,
       image_layout |-> "SHADER_READ_ONLY_OPTIMAL"] : b \in {0, 1} }

\* update_descriptor_sets: the writes made to a set
update_descriptor_sets(sampler, image_views) ==
    { [dst_binding |-> 0, dst_array_element |-> 0,
       descriptor_type |-> "COMBINED_IMAGE_SAMPLER",
       image_view |-> image_views[1], sampler |-> sampler,
       image_layout |-> "SHADER_READ_ONLY_OPTIMAL"],
      [dst_binding |-> 1, dst_array_element |-> 0,
       descriptor_type |-> "COMBINED_IMAGE_SAMPLER",
       image_view |-> image_views[2], sampler |-> sampler,
       image_layout |-> "SHADER_READ_ONLY_OPTIMAL"] }

(***************************************************************************)
(* vulkan/push_constants.rs                                                *)
(***************************************************************************)
\* The limit the struct's comment states for the block, in bytes
MaxPushConstantsSize == 128

\* A faulty variant of the struct: the two scalars are declared before the color.
PushConstantBuffer_fields_scalars_first ==
    << [name |-> "divider_pos", size |-> 4],
       [name |-> "divider_width", size |-> 4],
       [name |-> "color", size |-> 16] >>

\* #[repr(C)] struct PushConstantBuffer: the fields in declaration order with
\* their sizes in bytes (every field is f32-aligned, so there is no padding)
PushConstantBuffer_fields ==
    << [name |-> "color", size |-> 16],
       [name |-> "divider_pos", size |-> 4],
       [name |-> "divider_width", size |-> 4] >>

RECURSIVE SumSizes(_, _)
\* The bytes taken by the first n fields
SumSizes(fields, n) ==
    IF n = 0 THEN 0 ELSE fields[n].size + SumSizes(fields, n - 1)

\* The offset repr(C) gives the field called name
offset_of(fields, name) ==
    LET i == CHOOSE j \in DOMAIN fields : fields[j].name = name
    IN  SumSizes(fields, i - 1)

\* std::mem::size_of of the struct
size_of(fields) == SumSizes(fields, Len(fields))

RECURSIVE FieldWords(_, _, _)
\* The 4-byte words of the first n fields of the value pc
FieldWords(fields, pc, n) ==
    IF n = 0 THEN << >>
    ELSE FieldWords(fields, pc, n - 1)
         \o (IF fields[n].size = 4 THEN << pc[fields[n].name] >>
                                   ELSE pc[fields[n].name])

\* bytemuck::bytes_of(&PushConstantBuffer): the #[repr(C)] struct's fields in
\* declaration order, one entry per 4-byte word
PushConstantBuffer_bytes(pc) ==
    FieldWords(PushConstantBuffer_fields, pc, Len(PushConstantBuffer_fields))

(***************************************************************************)
(* lib.rs: the framebuffer cache                                           *)
(***************************************************************************)
\* A faulty variant of the lookup: the cached entry is never found.
CacheLookupMiss(cache, key) == NULL

\* cache.entry(key): the cached framebuffer, or NULL when the entry is vacant
CacheLookup(cache, key) ==
    IF key \in DOMAIN cache THEN cache[key] ELSE NULL

\* A faulty variant of the insertion: the framebuffer created is not put in the
\* cache.
CacheInsertForgotten(cache, key, fb) == cache

\* or_insert_with: the new framebuffer goes in under key
CacheInsert(cache, key, fb) ==
    [k \in DOMAIN cache \cup {key} |-> IF k = key THEN fb ELSE cache[k]]

\* Two faulty variants of the removal: the entry is read but left in the cache;
\* and the whole cache is emptied.
CacheRemoveKept(cache, key) ==
    [cache |-> cache,
     removed |-> IF key \in DOMAIN cache THEN cache[key] ELSE NULL]

CacheRemoveAll(cache, key) ==
    [cache |-> [k \in {} |-> NULL],
     removed |-> IF key \in DOMAIN cache THEN cache[key] ELSE NULL]

\* cache.remove(&image_view): the cache without the key, and the value taken out
CacheRemove(cache, key) ==
    [cache |-> [k \in DOMAIN cache \ {key} |-> cache[k]],
     removed |-> IF key \in DOMAIN cache THEN cache[key] ELSE NULL]

\* A faulty variant of the early return: the cache is as it was before the call.
cache_after_alloc_error_rolled_back(before, resolved) == before

\* create_descriptor_set(..)? returning early: the framebuffer was resolved
\* before the allocation, and the cache keeps what entry().or_insert_with left
cache_after_alloc_error(before, resolved) == resolved

\* A faulty variant of the release: the RefMut outlives the call and the RefCell
\* stays as it was, mutably borrowed.
drop_RefMut_leaked(borrow) == borrow

\* The RefMut taken by borrow_mut() goes out of scope when the call returns or
\* unwinds: the RefCell is free again
drop_RefMut(borrow) == "free"

\* A faulty variant of the create info: width and height are exchanged.
FramebufferCreateInfoTransposed(s, info, gen) ==
    [render_pass |-> s.render_pass, attachments |-> <<info.out_image_view>>,
     width |-> s.output_extent.height, height |-> s.output_extent.width,
     layers |-> 1, view_gen |-> gen]

\* vk::FramebufferCreateInfo of compare, with the incarnation of the view attached
FramebufferCreateInfo(s, info, gen) ==
    [render_pass |-> s.render_pass, attachments |-> <<info.out_image_view>>,
     width |-> s.output_extent.width, height |-> s.output_extent.height,
     layers |-> 1, view_gen |-> gen]

\* a as f32 / b as f32, kept exact as the fraction num/den
f32_div(a, b) == [num |-> a, den |-> b]

\* A faulty variant of the buffer: the width is pushed in pixels, not normalised.
push_buffer_pixels(s, info) ==
    [divider_pos |-> info.divider_position,
     divider_width |-> f32_div(info.divider_width, 1),
     color |-> info.divider_color]

\* The PushConstantBuffer compare fills in from the request
push_buffer(s, info) ==
    [divider_pos |-> info.divider_position,
     divider_width |-> f32_div(info.divider_width, s.output_extent.width),
     color |-> info.divider_color]

\* The fragment stage, as the specification describes it: from the pushed block
\* (position in word 5, normalised width in word 6) and the fragment's X in
\* pixels on a target W pixels wide, which source the fragment shows.  With
\* p the position and w the width, the fragment at normalised X = x / W shows
\* the first image when X < p - w/2, the second when X > p + w/2, and the
\* divider color in between; the comparisons are cleared of their fractions.
FragmentSource(b, x, W) ==
    LET P == b[5]
        w == b[6]
    IN  IF 2 * x * Unit * w.den < 2 * P * W * w.den - w.num * W * Unit
        THEN "first"
        ELSE IF 2 * x * Unit * w.den > 2 * P * W * w.den + w.num * W * Unit
             THEN "second" ELSE "divider"

cmd_begin_render_pass(s, framebuffer) ==
    [cmd |-> "begin_render_pass", render_pass |-> s.render_pass,
     framebuffer |-> framebuffer,
     render_area |-> [offset |-> <<0, 0>>, extent |-> s.output_extent],
     clear_values |-> << <<0, 0, 0, Unit>> >>, contents |-> "INLINE"]

cmd_bind_pipeline(s) ==
    [cmd |-> "bind_pipeline", bind_point |-> "GRAPHICS", pipeline |-> s.pipeline]

cmd_bind_descriptor_sets(s, descriptor_set) ==
    [cmd |-> "bind_descriptor_sets", bind_point |-> "GRAPHICS",
     layout |-> s.pipeline_layout, first_set |-> 0,
     descriptor_sets |-> <<descriptor_set>>]

cmd_push_constants(s, info) ==
    [cmd |-> "push_constants", layout |-> s.pipeline_layout,
     stage_flags |-> "FRAGMENT", offset |-> 0,
     bytes |-> PushConstantBuffer_bytes(push_buffer(s, info))]

cmd_draw ==
    [cmd |-> "draw", vertex_count |-> 3, instance_count |-> 1,
     first_vertex |-> 0, first_instance |-> 0]

cmd_end_render_pass == [cmd |-> "end_render_pass"]

\* A faulty variant of the recording: the draw is recorded before the descriptor
\* set is bound and the constants are pushed.
RecordedCommandsDrawEarly(s, info, framebuffer, descriptor_set) ==
    << cmd_begin_render_pass(s, framebuffer), cmd_bind_pipeline(s), cmd_draw,
       cmd_bind_descriptor_sets(s, descriptor_set), cmd_push_constants(s, info),
       cmd_end_render_pass >>

\* The commands compare records once it has its framebuffer and descriptor set
RecordedCommands(s, info, framebuffer, descriptor_set) ==
    << cmd_begin_render_pass(s, framebuffer), cmd_bind_pipeline(s),
       cmd_bind_descriptor_sets(s, descriptor_set), cmd_push_constants(s, info),
       cmd_draw, cmd_end_render_pass >>

\* All enumerations of a finite set: the orders HashMap::values() may iterate in
Orderings(S) ==
    {q \in [1 .. Cardinality(S) -> S] : \A i, j \in DOMAIN q : i # j => q[i] # q[j]}

\* A faulty variant of drop: the cached framebuffers are not destroyed.
DropDestroysNoFramebuffer(s, fbs) ==
    << <<"sampler", s.sampler>>, <<"pipeline", s.pipeline>>,
       <<"pipeline_layout", s.pipeline_layout>>,
       <<"descriptor_set_layout", s.descriptor_set_layout>>,
       <<"render_pass", s.render_pass>> >>

\* A faulty variant of drop: the objects go in the order the struct declares its
\* fields, the render pass first and the cached framebuffers last.
DropDestroysDeclarationOrder(s, fbs) ==
    << <<"render_pass", s.render_pass>>,
       <<"descriptor_set_layout", s.descriptor_set_layout>>,
       <<"pipeline_layout", s.pipeline_layout>>, <<"pipeline", s.pipeline>>,
       <<"sampler", s.sampler>> >>
    \o [i \in DOMAIN fbs |-> FramebufferHandle(fbs[i])]

\* A faulty variant of drop: the descriptor pool the host handed in is destroyed
\* with the comparator's own objects.
DropDestroysPoolToo(s, fbs) ==
    << <<"sampler", s.sampler>> >>
    \o [i \in DOMAIN fbs |-> FramebufferHandle(fbs[i])]
    \o << <<"pipeline", s.pipeline>>, <<"pipeline_layout", s.pipeline_layout>>,
          <<"descriptor_set_layout", s.descriptor_set_layout>>,
          <<"render_pass", s.render_pass>>,
          <<"descriptor_pool", s.descriptor_pool>> >>

\* impl Drop: the destroy calls, in order; fbs are the cache's values as iterated
DropDestroys(s, fbs) ==
    << <<"sampler", s.sampler>> >>
    \o [i \in DOMAIN fbs |-> FramebufferHandle(fbs[i])]
    \o << <<"pipeline", s.pipeline>>, <<"pipeline_layout", s.pipeline_layout>>,
          <<"descriptor_set_layout", s.descriptor_set_layout>>,
          <<"render_pass", s.render_pass>> >>

(***************************************************************************)
(* vulkan/pipeline.rs                                                      *)
(***************************************************************************)
\* vk::PipelineColorBlendAttachmentState of the one colour attachment
PipelineColorBlendAttachmentState ==
    [color_write_mask |-> {"R", "G", "B", "A"},
     blend_enable |-> FALSE,
     src_color_blend_factor |-> "SRC_ALPHA",
     dst_color_blend_factor |-> "ONE_MINUS_SRC_ALPHA",
     color_blend_op |-> "ADD",
     src_alpha_blend_factor |-> "ONE",
     dst_alpha_blend_factor |-> "ZERO",
     alpha_blend_op |-> "ADD"]

\* vk::PipelineLayoutCreateInfo: the set layouts and the one push-constant range,
\* of size_of::<f32>() bytes
PipelineLayoutCreateInfo(set_layouts) ==
    [set_layouts |-> set_layouts,
     push_constant_ranges |->
        << [stage_flags |-> "FRAGMENT", offset |-> 0, size |-> 4] >>]

\* vk::GraphicsPipelineCreateInfo of create_pipeline; a state the builder is not
\* given stays a null pointer (NULL)
GraphicsPipelineCreateInfo(extent, render_pass, pipeline_layout) ==
    [stages |-> <<"VERTEX", "FRAGMENT">>,
     vertex_input_state |-> [bindings |-> << >>, attributes |-> << >>],
     input_assembly_state |-> [topology |-> "TRIANGLE_LIST"],
     viewport_state |->
        [viewports |-> << [x |-> 0, y |-> 0, width |-> extent.width,
                           height |-> extent.height] >>,
         scissors |-> << [offset |-> <<0, 0>>, extent |-> extent] >>],
     color_blend_state |->
        [logic_op_enable |-> FALSE,
         attachments |-> << PipelineColorBlendAttachmentState >>],
     depth_stencil_state |-> NULL,
     layout |-> pipeline_layout,
     render_pass |-> render_pass,
     subpass |-> 0]

(***************************************************************************)
(* FrameComparator::new succeeded: the state the host starts from.         *)
(***************************************************************************)
New(extents) ==
    /\ phase = "Ready"
    /\ \E e \in extents :
          self = [render_pass |-> 1, descriptor_set_layout |-> 1,
                  pipeline_layout |-> 1, pipeline |-> 1, sampler |-> 1,
                  descriptor_pool |-> 1, output_extent |-> e]
    /\ framebuffer_cache = [k \in {} |-> NULL]
    /\ cache_borrow = "free"
    /\ framebuffers = <<>>
    /\ destroyed = <<>>
    /\ \E c \in PoolConfigs :
          pool = [max_sets |-> c.sets, max_samplers |-> c.samplers,
                  free_sets |-> c.free_sets, free_samplers |-> c.free_samplers,
                  taken_sets |-> 0, taken_samplers |-> 0]
    /\ descriptor_sets = <<>>
    /\ cmds = [cb \in CommandBuffers |-> <<>>]
    /\ views = [v \in Views |-> 0]
    /\ lastCompare = NoCompare
    /\ comparedSinceClear = {}
    /\ resolvedSinceClear = {}
    /\ omitted = {}
    /\ danglingUsed = {}
    /\ okCompares = 0
    /\ nCompare = 0
    /\ new_call = [pc |-> "returned", result |-> "Ok",
                   live |-> { <<"render_pass", 1>>, <<"descriptor_set_layout", 1>>,
                              <<"pipeline_layout", 1>>, <<"pipeline", 1>>,
                              <<"sampler", 1>> }]

Init == New(Extents)

(***************************************************************************)
(* FrameComparator::compare.  create_ok is the device's answer to          *)
(* create_framebuffer, should compare ask; caught says whether the host    *)
(* catches a panic (unwinding) or the process ends with it (panic=abort,   *)
(* or nothing catching it).                                                *)
(***************************************************************************)
Compare(info, create_ok, caught) ==
    /\ phase = "Ready"
    /\ nCompare < MaxCompare
    /\ LET key == info.out_image_view
           cached == CacheLookup(framebuffer_cache, key)
           vacant == cached = NULL
           new_fb == Len(framebuffers) + 1
           panics == cache_borrow # "free" \/ (vacant /\ ~create_ok)
           created == vacant /\ ~panics
           framebuffer == IF vacant THEN new_fb ELSE cached
           ds == create_descriptor_set(pool, descriptor_set_layout_bindings)
           descriptor_set == IF ds.allocated THEN Len(descriptor_sets) + 1 ELSE NULL
           result == IF panics THEN "Panic" ELSE IF ds.ok THEN "Ok" ELSE "Err"
       IN  /\ nCompare' = nCompare + 1
           /\ lastCompare' =
                 [view |-> key, result |-> result,
                  created |-> IF created THEN new_fb ELSE NULL,
                  framebuffer |-> IF panics THEN NULL ELSE framebuffer,
                  alloc_calls |-> IF panics THEN 0 ELSE ds.calls]
           /\ comparedSinceClear' = comparedSinceClear \cup {key}
           /\ cache_borrow' = IF cache_borrow # "free" THEN cache_borrow
                              ELSE drop_RefMut("mut")
           /\ IF panics
              THEN /\ phase' = IF caught THEN "Ready" ELSE "Aborted"
                   /\ UNCHANGED <<framebuffer_cache, framebuffers, pool,
                                  descriptor_sets, cmds, resolvedSinceClear,
                                  danglingUsed, okCompares>>
              ELSE /\ phase' = "Ready"
                   /\ framebuffers' =
                        IF created
                        THEN Append(framebuffers,
                                    FramebufferCreateInfo(self, info, views[key]))
                        ELSE framebuffers
                   /\ framebuffer_cache' =
                        LET resolved ==
                              IF created
                              THEN CacheInsert(framebuffer_cache, key, new_fb)
                              ELSE framebuffer_cache
                        IN  IF ds.ok THEN resolved
                            ELSE cache_after_alloc_error(framebuffer_cache, resolved)
                   /\ resolvedSinceClear' = resolvedSinceClear \cup {key}
                   /\ pool' = ds.pool
                   /\ descriptor_sets' =
                        IF ds.allocated
                        THEN Append(descriptor_sets,
                                    [layout |-> self.descriptor_set_layout,
                                     writes |-> update_descriptor_sets(self.sampler,
                                                                       info.image_views)])
                        ELSE descriptor_sets
                   /\ cmds' =
                        IF ds.ok
                        THEN [cmds EXCEPT ![info.command_buffer] =
                                @ \o RecordedCommands(self, info, framebuffer,
                                                      descriptor_set)]
                        ELSE cmds
                   /\ okCompares' = IF ds.ok THEN okCompares + 1 ELSE okCompares
                   /\ danglingUsed' =
                        IF ds.ok /\ ~vacant /\ Dangling(cached)
                        THEN danglingUsed \cup {key} ELSE danglingUsed
    /\ UNCHANGED <<new_call, self, destroyed, views, omitted>>

(***************************************************************************)
(* FrameComparator::clear_cache_for                                        *)
(***************************************************************************)
ClearCacheFor(image_view) ==
    /\ phase = "Ready"
    /\ cache_borrow = "free"
    /\ LET r == CacheRemove(framebuffer_cache, image_view)
       IN  /\ framebuffer_cache' = r.cache
           /\ destroyed' = IF r.removed # NULL
                           THEN Append(destroyed, FramebufferHandle(r.removed))
                           ELSE destroyed
           /\ danglingUsed' = IF r.removed # NULL /\ Dangling(r.removed)
                              THEN danglingUsed \cup {image_view} ELSE danglingUsed
           /\ lastCompare' = IF lastCompare.view = image_view THEN NoCompare
                              ELSE lastCompare
    /\ cache_borrow' = drop_RefMut("mut")
    /\ comparedSinceClear' = comparedSinceClear \ {image_view}
    /\ resolvedSinceClear' = resolvedSinceClear \ {image_view}
    /\ UNCHANGED <<new_call, phase, self, framebuffers, pool, descriptor_sets, cmds, views,
                   omitted, okCompares, nCompare>>

(***************************************************************************)
(* impl Drop for FrameComparator.  The struct is gone afterwards; the map  *)
(* is iterated, not drained.                                               *)
(***************************************************************************)
Drop ==
    /\ phase = "Ready"
    /\ \E keys \in Orderings(DOMAIN framebuffer_cache) :
          destroyed' = destroyed
              \o DropDestroys(self, [i \in DOMAIN keys |-> framebuffer_cache[keys[i]]])
    /\ phase' = "Destroyed"
    /\ danglingUsed' = danglingUsed
          \cup {k \in DOMAIN framebuffer_cache : Dangling(framebuffer_cache[k])}
    /\ UNCHANGED <<new_call, self, framebuffer_cache, cache_borrow, framebuffers, pool,
                   descriptor_sets, cmds, views, lastCompare, comparedSinceClear,
                   resolvedSinceClear, omitted, okCompares, nCompare>>

(***************************************************************************)
(* The host.  It destroys an output view and creates another under the     *)
(* same handle, with or without having called clear_cache_for since a      *)
(* compare last resolved a framebuffer for the view; and it resets its     *)
(* descriptor pool once the pool is exhausted.                             *)
(***************************************************************************)
HostReplaceView(v) ==
    /\ phase = "Ready"
    /\ Recreated < MaxRecreate
    /\ views' = [views EXCEPT ![v] = @ + 1]
    /\ omitted' = IF v \in resolvedSinceClear THEN omitted \cup {v} ELSE omitted
    /\ UNCHANGED <<new_call, phase, self, framebuffer_cache, cache_borrow, framebuffers,
                   destroyed, pool, descriptor_sets, cmds, lastCompare,
                   comparedSinceClear, resolvedSinceClear, danglingUsed,
                   okCompares, nCompare>>

HostResetPool ==
    /\ phase = "Ready"
    /\ ~allocate_descriptor_sets(pool, descriptor_set_layout_bindings).ok
    /\ pool' = [pool EXCEPT !.free_sets = pool.max_sets,
                            !.free_samplers = pool.max_samplers]
    /\ UNCHANGED <<new_call, phase, self, framebuffer_cache, cache_borrow, framebuffers,
                   destroyed, descriptor_sets, cmds, views, lastCompare, history, nCompare>>

Next ==
    \/ \E info \in FrameCompareInfo, create_ok \in BOOLEAN, caught \in BOOLEAN :
          Compare(info, create_ok, caught)
    \/ \E v \in Views : ClearCacheFor(v)
    \/ Drop
    \/ \E v \in Views : HostReplaceView(v)
    \/ HostResetPool

Spec == Init /\ [][Next]_vars

(***************************************************************************)
(* One compare on a fresh comparator, over the wide extents and requests:  *)
(* the specification for what compare computes from its request.           *)
(***************************************************************************)
InitEncode == New(WideExtents)

Encode(info) == nCompare = 0 /\ Compare(info, TRUE, TRUE)

NextEncode == \E info \in WideInfos : Encode(info)

SpecEncode == InitEncode /\ [][NextEncode]_vars

(***************************************************************************)
(* FrameComparator::new, step by step.  Every creation call may be         *)
(* answered by the device with an error, which new passes on with `?`;     *)
(* the handles created so far are plain locals, and no destroy call stands *)
(* on the way out.                                                         *)
(***************************************************************************)
\* What the device answers to a creation call
DeviceResults ==
    {"SUCCESS", "ERROR_OUT_OF_HOST_MEMORY", "ERROR_OUT_OF_DEVICE_MEMORY"}

\* The arguments of new, and nothing created yet
InitNew ==
    /\ phase = "Constructing"
    /\ \E e \in WideExtents :
          self = [render_pass |-> NULL, descriptor_set_layout |-> NULL,
                  pipeline_layout |-> NULL, pipeline |-> NULL, sampler |-> NULL,
                  descriptor_pool |-> 1, output_extent |-> e]
    /\ framebuffer_cache = [k \in {} |-> NULL]
    /\ cache_borrow = "free"
    /\ framebuffers = <<>>
    /\ destroyed = <<>>
    /\ \E c \in PoolConfigs :
          pool = [max_sets |-> c.sets, max_samplers |-> c.samplers,
                  free_sets |-> c.free_sets, free_samplers |-> c.free_samplers,
                  taken_sets |-> 0, taken_samplers |-> 0]
    /\ descriptor_sets = <<>>
    /\ cmds = [cb \in CommandBuffers |-> <<>>]
    /\ views = [v \in Views |-> 0]
    /\ lastCompare = NoCompare
    /\ comparedSinceClear = {}
    /\ resolvedSinceClear = {}
    /\ omitted = {}
    /\ danglingUsed = {}
    /\ okCompares = 0
    /\ nCompare = 0
    /\ new_call = [pc |-> "render_pass", result |-> "none", live |-> {}]

\* What new leaves alone
NewUnchanged ==
    UNCHANGED <<framebuffer_cache, cache_borrow, framebuffers, pool,
                descriptor_sets, cmds, views, lastCompare, history, nCompare>>

\* `?` on a creation error: new returns the error at once
NewReturnsErr(r) ==
    /\ new_call' = [new_call EXCEPT !.pc = "returned", !.result = r]
    /\ phase' = "Failed"
    /\ UNCHANGED <<self, destroyed>>

\* A creation step of new that binds a local which becomes a field of Self
NewCreates(at, next, field, r) ==
    /\ phase = "Constructing"
    /\ new_call.pc = at
    /\ IF r = "SUCCESS"
       THEN /\ self' = [self EXCEPT ![field] = 1]
            /\ new_call' = [new_call EXCEPT !.pc = next,
                                            !.live = @ \cup {<<field, 1>>}]
            /\ UNCHANGED <<phase, destroyed>>
       ELSE NewReturnsErr(r)
    /\ NewUnchanged

create_render_pass(r) ==
    NewCreates("render_pass", "descriptor_set_layout", "render_pass", r)

create_descriptor_set_layout(r) ==
    NewCreates("descriptor_set_layout", "vert_module", "descriptor_set_layout", r)

\* create_pipeline: the two shader modules, vert (1) then frag (2)
create_shader_module(r) ==
    /\ phase = "Constructing"
    /\ new_call.pc \in {"vert_module", "frag_module"}
    /\ IF r = "SUCCESS"
       THEN /\ new_call' =
                 IF new_call.pc = "vert_module"
                 THEN [new_call EXCEPT !.pc = "frag_module",
                                       !.live = @ \cup {<<"shader_module", 1>>}]
                 ELSE [new_call EXCEPT !.pc = "pipeline_layout",
                                       !.live = @ \cup {<<"shader_module", 2>>}]
            /\ UNCHANGED <<phase, self, destroyed>>
       ELSE NewReturnsErr(r)
    /\ NewUnchanged

\* create_pipeline: device.create_pipeline_layout
create_pipeline_layout(r) ==
    NewCreates("pipeline_layout", "pipeline", "pipeline_layout", r)

\* create_pipeline: device.create_graphics_pipelines, and on success the two
\* shader modules are destroyed
create_graphics_pipelines(r) ==
    /\ phase = "Constructing"
    /\ new_call.pc = "pipeline"
    /\ IF r = "SUCCESS"
       THEN /\ self' = [self EXCEPT !.pipeline = 1]
            /\ destroyed' = destroyed
                  \o << <<"shader_module", 1>>, <<"shader_module", 2>> >>
            /\ new_call' =
                 [new_call EXCEPT
                    !.pc = "sampler",
                    !.live = (@ \cup {<<"pipeline", 1>>})
                               \ {<<"shader_module", 1>>, <<"shader_module", 2>>}]
            /\ UNCHANGED phase
       ELSE NewReturnsErr(r)
    /\ NewUnchanged

\* create_image_sampler, the last step: on success new returns Ok(Self { .. })
create_image_sampler(r) ==
    /\ phase = "Constructing"
    /\ new_call.pc = "sampler"
    /\ IF r = "SUCCESS"
       THEN /\ self' = [self EXCEPT !.sampler = 1]
            /\ new_call' = [new_call EXCEPT !.pc = "returned", !.result = "Ok",
                                            !.live = @ \cup {<<"sampler", 1>>}]
            /\ phase' = "Ready"
            /\ UNCHANGED destroyed
       ELSE NewReturnsErr(r)
    /\ NewUnchanged

NextNew ==
    \E r \in DeviceResults :
        \/ create_render_pass(r)
        \/ create_descriptor_set_layout(r)
        \/ create_shader_module(r)
        \/ create_pipeline_layout(r)
        \/ create_graphics_pipelines(r)
        \/ create_image_sampler(r)

SpecNew == InitNew /\ [][NextNew]_vars

(***************************************************************************)
(* Shorthands for the properties.                                          *)
(***************************************************************************)
\* The step is a compare call
CompareStep == nCompare' = nCompare + 1

\* What the step appended to command buffer cb
Appended(cb) == SubSeq(cmds'[cb], Len(cmds[cb]) + 1, Len(cmds'[cb]))

\* The framebuffers with which the step began a render pass
BegunWith ==
    UNION { {Appended(cb)[i].framebuffer :
                i \in {j \in 1 .. Len(Appended(cb)) :
                          Appended(cb)[j].cmd = "begin_render_pass"}} :
            cb \in CommandBuffers }

\* The commands recorded so far, of every command buffer
AllCommands ==
    UNION {{cmds[cb][i] : i \in 1 .. Len(cmds[cb])} : cb \in CommandBuffers}

OwnedHandles ==
    { <<"sampler", self.sampler>>, <<"pipeline", self.pipeline>>,
      <<"pipeline_layout", self.pipeline_layout>>,
      <<"descriptor_set_layout", self.descriptor_set_layout>>,
      <<"render_pass", self.render_pass>> }

(***************************************************************************)
(* C1.  As claimed: the cache holds an entry for exactly the views that    *)
(* were the out_image_view of a compare since the view's last              *)
(* clear_cache_for (or since construction).                                *)
(***************************************************************************)
C1_EntryForEveryComparedView ==
    phase = "Ready" => DOMAIN framebuffer_cache = comparedSinceClear

(***************************************************************************)
(* C1, amended.  The cache holds an entry for exactly the views for which  *)
(* a compare resolved its framebuffer (found it cached or created it)      *)
(* since the view's last clear_cache_for, whether that compare then        *)
(* returned Ok or a descriptor-allocation error; each entry is a           *)
(* framebuffer created for its key, and no two entries share one.          *)
(***************************************************************************)
C1_EntryForEveryResolvedView ==
    /\ DOMAIN framebuffer_cache = resolvedSinceClear
    /\ \A k \in DOMAIN framebuffer_cache :
          /\ framebuffer_cache[k] \in 1 .. Len(framebuffers)
          /\ framebuffers[framebuffer_cache[k]].attachments = <<k>>
    /\ \A j, k \in DOMAIN framebuffer_cache :
          j # k => framebuffer_cache[j] # framebuffer_cache[k]

\* compare was called with two distinct output views: two entries
C1_Witness ==
    /\ phase = "Ready"
    /\ nCompare = 2
    /\ Cardinality(DOMAIN framebuffer_cache) = 2

(***************************************************************************)
(* C2.  Of two consecutive compare calls with the same out_image_view and  *)
(* no clear_cache_for of it in between, the second creates no framebuffer  *)
(* and, when it records, begins its render pass with the framebuffer the   *)
(* first call used.                                                        *)
(***************************************************************************)
C2_SecondCompareReusesFramebuffer ==
    [][ (/\ CompareStep
         /\ lastCompare.framebuffer # NULL
         /\ lastCompare'.view = lastCompare.view)
        => /\ lastCompare'.created = NULL
           /\ framebuffers' = framebuffers
           /\ lastCompare'.framebuffer = lastCompare.framebuffer
           /\ BegunWith \subseteq {lastCompare.framebuffer}
           /\ lastCompare'.result = "Ok" => BegunWith # {} ]_vars

\* Two compare calls, both Ok, and one framebuffer in both render passes
C2_Witness ==
    /\ okCompares = 2
    /\ Len(framebuffers) = 1
    /\ lastCompare.created = NULL
    /\ \E cb \in CommandBuffers :
          /\ Len(cmds[cb]) = 12
          /\ cmds[cb][1].framebuffer = cmds[cb][7].framebuffer

(***************************************************************************)
(* C3.  clear_cache_for(v) leaves the cache as it was minus key v.  An     *)
(* entry for v is removed and its framebuffer destroyed, once; the other   *)
(* entries keep their framebuffers, undestroyed; without an entry for v    *)
(* nothing changes and nothing is destroyed.                               *)
(***************************************************************************)
C3_ClearRemovesExactlyThatEntry ==
    [][ \A v \in Views :
          ClearCacheFor(v) =>
            /\ DOMAIN framebuffer_cache' = DOMAIN framebuffer_cache \ {v}
            /\ \A k \in DOMAIN framebuffer_cache' :
                  /\ framebuffer_cache'[k] = framebuffer_cache[k]
                  /\ DestroyCountIn(destroyed',
                                    FramebufferHandle(framebuffer_cache'[k])) = 0
            /\ v \in DOMAIN framebuffer_cache =>
                  /\ destroyed' = Append(destroyed,
                                         FramebufferHandle(framebuffer_cache[v]))
                  /\ DestroyCountIn(destroyed',
                                    FramebufferHandle(framebuffer_cache[v])) = 1
            /\ v \notin DOMAIN framebuffer_cache =>
                  /\ framebuffer_cache' = framebuffer_cache
                  /\ destroyed' = destroyed
            /\ framebuffers' = framebuffers ]_vars

\* Of two entries one was cleared: its framebuffer is destroyed, the other is cached
C3_Witness ==
    /\ phase = "Ready"
    /\ Len(framebuffers) = 2
    /\ Len(destroyed) = 1
    /\ \E k \in DOMAIN framebuffer_cache :
          /\ DOMAIN framebuffer_cache = {k}
          /\ destroyed[1] # FramebufferHandle(framebuffer_cache[k])

(***************************************************************************)
(* C4.  A compare on a view that has no framebuffer resolved since its     *)
(* last clear_cache_for creates a new framebuffer (unless its creation     *)
(* fails), inserts it under the view and records its render pass with it;  *)
(* and no compare begins a render pass with a destroyed framebuffer.       *)
(***************************************************************************)
C4_FreshFramebufferAfterClear ==
    [][ CompareStep =>
          /\ \A fb \in BegunWith : DestroyCountIn(destroyed', FramebufferHandle(fb)) = 0
          /\ (lastCompare'.view \notin resolvedSinceClear
                /\ lastCompare'.result # "Panic") =>
                /\ lastCompare'.created = Len(framebuffers) + 1
                /\ Len(framebuffers') = Len(framebuffers) + 1
                /\ framebuffer_cache'[lastCompare'.view] = lastCompare'.created
                /\ BegunWith \subseteq {lastCompare'.created}
                /\ lastCompare'.result = "Ok" => BegunWith # {} ]_vars

\* compare, clear_cache_for and compare again on one view: the second framebuffer
\* is in the cache and in the render pass, the first is destroyed
C4_Witness ==
    /\ Len(framebuffers) = 2
    /\ framebuffers[1].attachments = framebuffers[2].attachments
    /\ DestroyCount(FramebufferHandle(1)) = 1
    /\ lastCompare.created = 2
    /\ lastCompare.result = "Ok"
    /\ framebuffer_cache[lastCompare.view] = 2
    /\ \E c \in AllCommands : c.cmd = "begin_render_pass" /\ c.framebuffer = 2

(***************************************************************************)
(* C5.  Once the comparator is dropped, every framebuffer it created has   *)
(* been destroyed exactly once, and so have its sampler, pipeline,         *)
(* pipeline layout, descriptor set layout and render pass; before that     *)
(* nothing is destroyed twice and none of the five is destroyed.           *)
(***************************************************************************)
C5_EverythingDestroyedOnce ==
    /\ \A fb \in 1 .. Len(framebuffers) : DestroyCount(FramebufferHandle(fb)) <= 1
    /\ phase # "Destroyed" => \A h \in OwnedHandles : DestroyCount(h) = 0
    /\ phase = "Destroyed" =>
          /\ \A fb \in 1 .. Len(framebuffers) : DestroyCount(FramebufferHandle(fb)) = 1
          /\ \A h \in OwnedHandles : DestroyCount(h) = 1

\* Dropped, with one framebuffer destroyed by clear_cache_for and one by drop
C5_Witness ==
    /\ phase = "Destroyed"
    /\ Len(framebuffers) = 2
    /\ destroyed[1][1] = "framebuffer"
    /\ destroyed[2] = <<"sampler", self.sampler>>
    /\ Cardinality(DOMAIN framebuffer_cache) = 1

(***************************************************************************)
(* C6.  A compare that finds the pool unable to supply a descriptor set    *)
(* (no free set, or fewer than two free image descriptors) returns an      *)
(* error, records no command into any command buffer, and has asked the    *)
(* pool once.                                                              *)
(***************************************************************************)
C6_NoCommandsOnPoolExhaustion ==
    [][ (CompareStep /\ (pool.free_sets < 1 \/ pool.free_samplers < 2)) =>
          /\ cmds' = cmds
          /\ descriptor_sets' = descriptor_sets
          /\ pool' = pool
          /\ lastCompare'.result # "Ok"
          /\ lastCompare'.result # "Panic" =>
                /\ lastCompare'.result = "Err"
                /\ lastCompare'.alloc_calls = 1 ]_vars

\* A compare returned the allocation error: its framebuffer is cached, nothing is
\* recorded
C6_Witness ==
    /\ lastCompare.result = "Err"
    /\ lastCompare.created # NULL
    /\ nCompare = 1
    /\ \A cb \in CommandBuffers : cmds[cb] = <<>>

(***************************************************************************)
(* C7.  As claimed: a compare whose framebuffer creation fails returns an  *)
(* error value; compare leaves through its result, Ok or Err, and by no    *)
(* other exit.                                                             *)
(***************************************************************************)
C7_CompareLeavesThroughItsResult ==
    lastCompare.result \in {"none", "Ok", "Err"}

(***************************************************************************)
(* C8.  As claimed: a compare that failed leaves the comparator Ready,     *)
(* with its cache free to borrow.                                          *)
(***************************************************************************)
C8_FailedCompareLeavesReady ==
    [][ (CompareStep /\ lastCompare'.result # "Ok") =>
          /\ phase' = "Ready"
          /\ cache_borrow' = "free" ]_vars

(***************************************************************************)
(* C9.  For every view the host has never replaced without first calling   *)
(* clear_cache_for (after a compare resolved a framebuffer for it): the    *)
(* cache holds no framebuffer of a destroyed incarnation of the view, and  *)
(* neither compare, clear_cache_for nor drop has used or destroyed one.    *)
(* For a view with the call omitted, such a use is reachable.              *)
(***************************************************************************)
C9_NoDanglingFramebufferIfHostClears ==
    \A v \in Views \ omitted :
        /\ v \in DOMAIN framebuffer_cache => ~Dangling(framebuffer_cache[v])
        /\ v \notin danglingUsed

\* One view was cleared and then replaced; the other was replaced with its
\* framebuffer still cached, and that framebuffer was then used or destroyed
C9_Witness ==
    \E v, w \in Views :
        /\ v \notin omitted
        /\ views[v] > 0
        /\ \E fb \in 1 .. Len(framebuffers) :
              /\ framebuffers[fb].attachments = <<v>>
              /\ DestroyCount(FramebufferHandle(fb)) = 1
        /\ w \in omitted
        /\ w \in danglingUsed

\* The same stale use, by a compare that records with the framebuffer of the
\* destroyed view
C9_StaleCompareReachable ==
    \E w \in omitted :
        /\ phase = "Ready"
        /\ w \in danglingUsed
        /\ w \in DOMAIN framebuffer_cache
        /\ Dangling(framebuffer_cache[w])
        /\ \E c \in AllCommands :
              c.cmd = "begin_render_pass" /\ c.framebuffer = framebuffer_cache[w]

(***************************************************************************)
(* C10.  The items lib.rs makes public, and what a host gets from each.    *)
(***************************************************************************)
PublicItems ==
    { [item |-> "Color", gives |-> "struct"],
      [item |-> "FrameCompareInfo", gives |-> "struct"],
      [item |-> "FrameCompareInfo::builder", gives |-> "FrameCompareInfoBuilder"],
      [item |-> "FrameComparator", gives |-> "struct"],
      [item |-> "FrameComparator::new", gives |-> "Result<FrameComparator>"],
      [item |-> "FrameComparator::clear_cache_for", gives |-> "()"],
      [item |-> "FrameComparator::compare", gives |-> "Result<()>"] }

\* The descriptor sets the recorded commands bind, one per bind command
BoundSets ==
    {c.descriptor_sets[1] : c \in {x \in AllCommands : x.cmd = "bind_descriptor_sets"}}

(***************************************************************************)
(* C10, amended.  Every successful compare takes exactly one new           *)
(* descriptor set of two combined-image-sampler descriptors from the       *)
(* host's pool, a failed one takes none, and the comparator frees or       *)
(* reuses none: after k successful calls the pool has lost k sets and 2k   *)
(* image descriptors and k distinct sets are bound.  The count 2 is fixed  *)
(* by the two one-descriptor bindings of the layout; the comparator        *)
(* exposes no query for it.                                                *)
(***************************************************************************)
C10_OneSetPerSuccessfulCompare ==
    /\ pool.taken_sets = okCompares
    /\ pool.taken_samplers = 2 * okCompares
    /\ Len(descriptor_sets) = okCompares
    /\ BoundSets = 1 .. okCompares
    /\ \A i \in 1 .. Len(destroyed) :
          destroyed[i][1] \notin {"descriptor_set", "descriptor_pool"}
    /\ \A i \in PublicItems : i.gives # "descriptor count"

(***************************************************************************)
(* C10.  As claimed: the accounting above, and the per-call count exposed  *)
(* to the host.                                                            *)
(***************************************************************************)
C10_CountExposedToHost ==
    /\ pool.taken_sets = okCompares
    /\ pool.taken_samplers = 2 * okCompares
    /\ \E i \in PublicItems : i.gives = "descriptor count"

\* Two successful compare calls with one and the same request: two sets taken
C10_Witness ==
    /\ okCompares = 2
    /\ pool.taken_samplers = 4
    /\ descriptor_sets[1] = descriptor_sets[2]
    /\ \E cb \in CommandBuffers :
          /\ Len(cmds[cb]) = 12
          /\ cmds[cb][1] = cmds[cb][7]
          /\ cmds[cb][4] = cmds[cb][10]
          /\ cmds[cb][3].descriptor_sets # cmds[cb][9].descriptor_sets

(***************************************************************************)
(* C11..C20                                                                *)
(***************************************************************************)
\* The step is the compare call of request info that returned Ok
OkCompareOf(info) ==
    /\ \E create_ok, caught \in BOOLEAN : Compare(info, create_ok, caught)
    /\ lastCompare'.result = "Ok"

\* C11: every compare that returns Ok appends to the request's command buffer
\* exactly six commands, in this order: begin render pass (the framebuffer cached
\* for the output view, clear colour (0,0,0,1), render area the whole output
\* extent from the origin), bind the comparator's graphics pipeline, bind the
\* descriptor set allocated in this call, push constants, draw 3 vertices of 1
\* instance, end render pass; and it records into no other command buffer.
C11_ExactlySixCommandsInOrder ==
    [][\A info \in FrameCompareInfo :
         OkCompareOf(info) =>
           LET a == Appended(info.command_buffer)
           IN  /\ [i \in DOMAIN a |-> a[i].cmd]
                    = << "begin_render_pass", "bind_pipeline",
                         "bind_descriptor_sets", "push_constants", "draw",
                         "end_render_pass" >>
               /\ a[1].framebuffer = framebuffer_cache'[info.out_image_view]
               /\ a[1].render_pass = self.render_pass
               /\ a[1].clear_values = << <<0, 0, 0, Unit>> >>
               /\ a[1].render_area
                    = [offset |-> <<0, 0>>, extent |-> self.output_extent]
               /\ a[2].bind_point = "GRAPHICS" /\ a[2].pipeline = self.pipeline
               /\ Len(descriptor_sets') = Len(descriptor_sets) + 1
               /\ a[3].descriptor_sets = << Len(descriptor_sets') >>
               /\ a[3].first_set = 0 /\ a[3].layout = self.pipeline_layout
               /\ a[5].vertex_count = 3 /\ a[5].instance_count = 1
               /\ \A cb \in CommandBuffers \ {info.command_buffer} :
                     cmds'[cb] = cmds[cb]]_vars

\* Both command buffers hold the six commands of one successful compare each
C11_Witness ==
    /\ okCompares = 2
    /\ \A cb \in CommandBuffers : Len(cmds[cb]) = 6

\* Where in the log of destroy calls the handle h was destroyed
DestroyedAt(h) == CHOOSE i \in DOMAIN destroyed : destroyed[i] = h

\* C12: once the comparator is dropped, the sampler and every framebuffer it ever
\* cached were destroyed before the pipeline, the pipeline and its layout before
\* the descriptor set layout, and the descriptor set layout before the render
\* pass; no framebuffer was destroyed after the render pass it was created with.
C12_DropInDependencyOrder ==
    phase = "Destroyed" =>
      LET fbAt == {i \in DOMAIN destroyed : destroyed[i][1] = "framebuffer"}
          sampler == <<"sampler", self.sampler>>
          pipeline == <<"pipeline", self.pipeline>>
          layout == <<"pipeline_layout", self.pipeline_layout>>
          dsl == <<"descriptor_set_layout", self.descriptor_set_layout>>
          render_pass == <<"render_pass", self.render_pass>>
      IN  /\ \A h \in {sampler, pipeline, layout, dsl, render_pass} :
                \E i \in DOMAIN destroyed : destroyed[i] = h
          /\ \A k \in DOMAIN framebuffer_cache :
                \E i \in fbAt : destroyed[i] = FramebufferHandle(framebuffer_cache[k])
          /\ DestroyedAt(sampler) < DestroyedAt(pipeline)
          /\ \A i \in fbAt : i < DestroyedAt(pipeline)
          /\ DestroyedAt(pipeline) < DestroyedAt(dsl)
          /\ DestroyedAt(layout) < DestroyedAt(dsl)
          /\ DestroyedAt(dsl) < DestroyedAt(render_pass)
          /\ \A i \in fbAt :
                framebuffers[destroyed[i][2]].render_pass = self.render_pass
                   => i < DestroyedAt(render_pass)

\* A comparator dropped with two framebuffers in its cache: seven destroy calls
C12_Witness ==
    /\ phase = "Destroyed"
    /\ Cardinality(DOMAIN framebuffer_cache) = 2
    /\ Len(destroyed) = 7

\* The push constants the step recorded, as 4-byte words
PushedWords(cb) == Appended(cb)[4].bytes

\* The step is the single compare of request info, and it returned Ok
OkEncodeOf(info) == Encode(info) /\ lastCompare'.result = "Ok"

C15_TwoBindingsWrittenWithThePair ==
    [][\A info \in FrameCompareInfo :
         OkCompareOf(info) =>
           LET bound == Appended(info.command_buffer)[3].descriptor_sets
               writes == descriptor_sets'[bound[1]].writes
               at(n) == {w \in writes : w.dst_binding = n}
           IN  /\ Len(bound) = 1
               /\ bound[1] = Len(descriptor_sets) + 1
               /\ {w.dst_binding : w \in writes} = {0, 1}
               /\ Cardinality(writes) = 2
               /\ \A w \in at(0) : w.image_view = info.image_views[1]
               /\ \A w \in at(1) : w.image_view = info.image_views[2]
               /\ \A w \in writes :
                     /\ w.sampler = self.sampler
                     /\ w.descriptor_type = "COMBINED_IMAGE_SAMPLER"]_vars

\* Two sets were written: one with a pair of different views, one with the same
\* view at both bindings
C15_Witness ==
    /\ Len(descriptor_sets) = 2
    /\ \E i, j \in DOMAIN descriptor_sets :
          /\ {w.image_view : w \in descriptor_sets[i].writes} = {11, 12}
          /\ {w.image_view : w \in descriptor_sets[j].writes} = {12}
          /\ Cardinality(descriptor_sets[j].writes) = 2

\* C16: a compare whose divider_position lies outside [0, 1] either does not
\* return Ok and records nothing, or pushes the position clamped into [0, 1];
\* the out-of-range position is never pushed as it was given.
C16_OutOfRangePositionRejectedOrClamped ==
    [][\A info \in WideInfos :
         (Encode(info) /\ (info.divider_position < 0 \/ info.divider_position > Unit))
           => \/ /\ lastCompare'.result # "Ok"
                 /\ cmds' = cmds
              \/ /\ lastCompare'.result = "Ok"
                 /\ PushedWords(info.command_buffer)[5]
                      = IF info.divider_position < 0 THEN 0 ELSE Unit]_vars

\* An out-of-range position reached the command buffer as it was given
C16_PushedUnchanged ==
    \E cb \in CommandBuffers :
        /\ Len(cmds[cb]) = 6
        /\ cmds[cb][4].bytes[5] \in {0 - Unit \div 2, 2 * Unit}

\* The create info the comparator's pipeline was built from
PipelineInfo ==
    GraphicsPipelineCreateInfo(self.output_extent, self.render_pass,
                               self.pipeline_layout)

\* C17: the pipeline a comparator holds was created with blending enabled on its
\* colour attachment, with the colour factors src_alpha and one_minus_src_alpha,
\* and with no depth or stencil state.
C17_AlphaBlendingEnabled ==
    LET a == PipelineInfo.color_blend_state.attachments
    IN  /\ Len(a) = 1
        /\ a[1].blend_enable
        /\ a[1].src_color_blend_factor = "SRC_ALPHA"
        /\ a[1].dst_color_blend_factor = "ONE_MINUS_SRC_ALPHA"
        /\ PipelineInfo.depth_stencil_state = NULL

\* A render pass was recorded with a pipeline whose blending is switched off
C17_DrawnWithoutBlending ==
    /\ okCompares > 0
    /\ ~PipelineInfo.color_blend_state.attachments[1].blend_enable

\* C18: every framebuffer in the cache was created with the comparator's render
\* pass, with exactly one attachment, the image view it is cached under, and
\* with the width and height of the extent the comparator was built with; and
\* every render pass recorded has that same extent, from the origin, as its
\* render area.
C18_FramebufferMatchesKeyAndExtent ==
    /\ \A k \in DOMAIN framebuffer_cache :
          LET f == framebuffers[framebuffer_cache[k]]
          IN  /\ f.render_pass = self.render_pass
              /\ f.attachments = <<k>>
              /\ f.width = self.output_extent.width
              /\ f.height = self.output_extent.height
    /\ \A c \in AllCommands :
          c.cmd = "begin_render_pass" =>
            /\ c.render_area = [offset |-> <<0, 0>>, extent |-> self.output_extent]
            /\ framebuffers[c.framebuffer].width = c.render_area.extent.width
            /\ framebuffers[c.framebuffer].height = c.render_area.extent.height

\* Two views have their framebuffers cached and a render pass was recorded for
\* each
C18_Witness ==
    /\ DOMAIN framebuffer_cache = Views
    /\ okCompares = 2
    /\ {c.framebuffer : c \in {d \in AllCommands : d.cmd = "begin_render_pass"}}
         = {framebuffer_cache[v] : v \in Views}

\* The step is the host's own: it replaces a view or resets its pool
HostStep == (\E v \in Views : HostReplaceView(v)) \/ HostResetPool

\* The step is a call of one of the comparator's operations: compare,
\* clear_cache_for or drop
ComparatorStep == ~HostStep

\* C19: no operation of the comparator destroys, frees or resets what the host
\* owns.  Its destroy calls are only on framebuffers it created and on its own
\* sampler, pipeline, pipeline layout, descriptor set layout and render pass,
\* never on an image view, the descriptor pool, a descriptor set or the device;
\* it leaves the host's views as they are, takes from the pool without ever
\* giving back, and every descriptor set allocated stays allocated.
C19_HostOwnedObjectsLeftAlone ==
    [][ComparatorStep =>
         /\ \A i \in DOMAIN destroyed' :
               \/ destroyed'[i] \in OwnedHandles
               \/ /\ destroyed'[i][1] = "framebuffer"
                  /\ destroyed'[i][2] \in DOMAIN framebuffers'
         /\ views' = views
         /\ pool'.max_sets = pool.max_sets
         /\ pool'.max_samplers = pool.max_samplers
         /\ pool'.free_sets <= pool.free_sets
         /\ pool'.free_samplers <= pool.free_samplers
         /\ SubSeq(descriptor_sets', 1, Len(descriptor_sets)) = descriptor_sets]_vars

\* A comparator that allocated sets from the host's pool and drew to two of the
\* host's views has been dropped
C19_Witness ==
    /\ phase = "Destroyed"
    /\ Len(descriptor_sets) = 2
    /\ DOMAIN framebuffer_cache = Views

\* C20: compare resolves the framebuffer before it allocates the descriptor set,
\* so after a compare that returned Ok or the allocation error, and until
\* clear_cache_for is called on its output view, the cache holds the entry for
\* that view, the framebuffer the call resolved; the view counts among those
\* the host has to clear before it destroys the view.
C20_EntryKeptOnOkAndOnAllocError ==
    lastCompare.result \in {"Ok", "Err"} =>
      /\ lastCompare.view \in DOMAIN framebuffer_cache
      /\ framebuffer_cache[lastCompare.view] = lastCompare.framebuffer
      /\ lastCompare.view \in resolvedSinceClear

\* A compare created a framebuffer and failed on the allocation; the host then
\* replaced the view without clear_cache_for, and the cache holds a framebuffer
\* of a view that is gone
C20_Witness ==
    /\ lastCompare.result = "Err"
    /\ lastCompare.created # NULL
    /\ okCompares = 0
    /\ lastCompare.view \in DOMAIN framebuffer_cache
    /\ Dangling(framebuffer_cache[lastCompare.view])

(***************************************************************************)
(* C21..C23                                                                *)
(***************************************************************************)
\* C21: when new has returned an error, no object created by that call is
\* live: the render pass, descriptor set layout, shader modules and pipeline
\* layout made by its earlier steps have all been destroyed.
C21_FailedNewLeavesNothing ==
    (new_call.pc = "returned" /\ new_call.result # "Ok") => new_call.live = {}

\* new returned the error of create_graphics_pipelines, and the render pass,
\* the descriptor set layout, both shader modules and the pipeline layout are
\* live with no destroy call made
C21_LeakedOnPipelineFailure ==
    /\ phase = "Failed"
    /\ new_call.result = "ERROR_OUT_OF_DEVICE_MEMORY"
    /\ destroyed = <<>>
    /\ new_call.live
         = { <<"render_pass", 1>>, <<"descriptor_set_layout", 1>>,
             <<"shader_module", 1>>, <<"shader_module", 2>>,
             <<"pipeline_layout", 1>> }

\* The push-constant ranges of the pipeline layout the comparator created
DeclaredRanges ==
    LET info == PipelineLayoutCreateInfo(<<self.descriptor_set_layout>>)
    IN  {info.push_constant_ranges[i] : i \in DOMAIN info.push_constant_ranges}

\* C22: every push-constants command recorded names the comparator's pipeline
\* layout, and its bytes, from its offset for its length, lie inside a range
\* that layout declares for the same stage.
C22_PushedBytesInsideDeclaredRange ==
    \A c \in AllCommands :
        c.cmd = "push_constants" =>
          /\ c.layout = self.pipeline_layout
          /\ \E range \in DeclaredRanges :
                /\ range.stage_flags = c.stage_flags
                /\ range.offset <= c.offset
                /\ c.offset + 4 * Len(c.bytes) <= range.offset + range.size

\* 24 bytes were pushed at offset 0 through a layout that declares 4
C22_PushedPastDeclaredRange ==
    \E c \in AllCommands :
        /\ c.cmd = "push_constants"
        /\ c.offset = 0
        /\ 4 * Len(c.bytes) = 24
        /\ \A range \in DeclaredRanges : range.offset + range.size = 4

\* C23: between calls the framebuffer cache is never left borrowed: whatever
\* compare or clear_cache_for returned, the next call finds the RefCell free, so
\* a compare panics only where it had a framebuffer to create (its view was not
\* cached) and never on a borrow; and drop reaches every cached framebuffer.
C23_CacheNeverLeftBorrowed ==
    /\ cache_borrow = "free"
    /\ lastCompare.result = "Panic" => lastCompare.view \notin DOMAIN framebuffer_cache
    /\ phase = "Destroyed" =>
         \A k \in DOMAIN framebuffer_cache :
            DestroyCount(FramebufferHandle(framebuffer_cache[k])) = 1

\* A compare returned the allocation error after creating its framebuffer; the
\* next compare of the same view borrowed the cache again, found the framebuffer
\* and returned Ok; then the comparator was dropped
C23_Witness ==
    /\ phase = "Destroyed"
    /\ nCompare = 2
    /\ okCompares = 1
    /\ Len(framebuffers) = 1
    /\ lastCompare.result = "Ok"
    /\ lastCompare.created = NULL
    /\ cache_borrow = "free"

=============================================================================
